---------------------------- MODULE Spec2Model ----------------------------
(***************************************************************************)
(* Model of the dipboy order parser (src/src/parser/mod.rs) and of its     *)
(* parser combinators (src/src/parser/combinators.rs).                     *)
(*                                                                         *)
(* A &str is a sequence of one-character strings.  The parsing functions   *)
(* are pure, so each is an operator; an action applies one rule to the     *)
(* input line, or pulls one item from an iterator.                         *)
(***************************************************************************)
EXTENDS Integers, Sequences, FiniteSets, TLC

VARIABLES
    input,      \* the order line (order_str of the rule that is applied)
    op,         \* which operation ran on the line: "none" before any
    result,     \* the Result the rule returned
    it_pos,     \* ParseProvince.inner: number of characters consumed
    it_ended,   \* ParseProvince::next has returned None
    yielded,    \* the pairs ParseProvince::next has returned, in order
    parser,     \* the combinator parser under test
    c_it,       \* its Result iterator
    pulls       \* what each call of next on c_it returned, in order

vars == <<input, op, result, it_pos, it_ended, yielded, parser, c_it, pulls>>

(***************************************************************************)
(* Characters and string helpers                                           *)
(***************************************************************************)

\* char::is_alphabetic, on the characters the model's lines are made of
Alphabetic ==
    {"a", "b", "c", "d", "e", "f", "g", "h", "i", "j", "k", "l", "m",
     "n", "o", "p", "q", "r", "s", "t", "u", "v", "w", "x", "y", "z",
     "E", "M", "S"}

\* char::is_whitespace, on the characters the model's lines are made of
Whitespace == {" ", "\t"}

\* the test of ParseProvince::next: c.is_alphabetic() || c == '.' || c == '(' || c == ')'
IsNameChar(c) == c \in Alphabetic \/ c = "." \/ c = "(" \/ c = ")"

\* str::starts_with(tag)
starts_with(s, tag) ==
    Len(s) >= Len(tag) /\ SubSeq(s, 1, Len(tag)) = tag

\* str::split_at(n).1
DropFirst(s, n) == SubSeq(s, n + 1, Len(s))

\* str::split_at(n).0
TakeFirst(s, n) == SubSeq(s, 1, n)

\* str::trim_start
RECURSIVE trim_start(_)
trim_start(s) ==
    IF s # <<>> /\ s[1] \in Whitespace THEN trim_start(Tail(s)) ELSE s

(***************************************************************************)
(* Leaf parsers of mod.rs                                                  *)
(***************************************************************************)

Ok(v, rem) == [ok |-> TRUE, val |-> v, rem |-> rem]
Err(rem) == [ok |-> FALSE, val |-> "none", rem |-> rem]

parse_unit(order_str) ==
    IF starts_with(order_str, <<"a", "r", "m", "y">>)
    THEN Ok("Army", DropFirst(order_str, 4))
    ELSE IF starts_with(order_str, <<"f", "l", "e", "e", "t">>)
    THEN Ok("Fleet", DropFirst(order_str, 5))
    ELSE IF starts_with(order_str, <<"a">>)
    THEN Ok("Army", DropFirst(order_str, 1))
    ELSE IF starts_with(order_str, <<"f">>)
    THEN Ok("Fleet", DropFirst(order_str, 1))
    ELSE Err(order_str)

\* optional(parser) of mod.rs, applied to parse_unit: never fails
optional_unit(s) ==
    LET r == parse_unit(s)
    IN  IF r.ok THEN Ok(r.val, r.rem) ELSE Ok("None", r.rem)

skip_whitespace(order_str) == trim_start(order_str)

require_whitespace(order_str) ==
    IF order_str # <<>> /\ order_str[1] \in Whitespace
    THEN Ok("unit", trim_start(order_str))
    ELSE Err(order_str)

parse_hold(order_str) ==
    IF starts_with(order_str, <<"h", "o", "l", "d", "s">>)
    THEN Ok("unit", DropFirst(order_str, 5))
    ELSE IF starts_with(order_str, <<"h", "o", "l", "d">>)
    THEN Ok("unit", DropFirst(order_str, 4))
    ELSE IF starts_with(order_str, <<"h">>)
    THEN Ok("unit", DropFirst(order_str, 1))
    ELSE Err(order_str)

expect_eol(order_str) ==
    IF Len(order_str) = 0 THEN Ok("unit", <<>>) ELSE Err(order_str)

parse_to(order_str) ==
    IF starts_with(order_str, <<"-">>)
    THEN Ok("unit", DropFirst(order_str, 1))
    ELSE IF starts_with(order_str, <<"t", "o">>)
    THEN Ok("unit", DropFirst(order_str, 2))
    ELSE Err(order_str)

parse_support(order_str) ==
    IF starts_with(order_str, <<"s", "u", "p", "p", "o", "r", "t", "s">>)
    THEN Ok("unit", DropFirst(order_str, 8))
    ELSE IF starts_with(order_str, <<"s", "u", "p", "p", "o", "r", "t">>)
    THEN Ok("unit", DropFirst(order_str, 7))
    ELSE IF starts_with(order_str, <<"s">>)
    THEN Ok("unit", DropFirst(order_str, 1))
    ELSE Err(order_str)

parse_convoy(order_str) ==
    IF starts_with(order_str, <<"c", "o", "n", "v", "o", "y", "s">>)
    THEN Ok("unit", DropFirst(order_str, 7))
    ELSE IF starts_with(order_str, <<"c", "o", "n", "v", "o", "y">>)
    THEN Ok("unit", DropFirst(order_str, 6))
    ELSE IF starts_with(order_str, <<"c">>)
    THEN Ok("unit", DropFirst(order_str, 1))
    ELSE Err(order_str)

(***************************************************************************)
(* ParseProvince: the place-name boundary enumerator                       *)
(*                                                                         *)
(* The iterator's state is pos, the number of characters `inner` has       *)
(* consumed; inner.next() returns (pos, order_str[pos + 1]) and makes      *)
(* pos + 1 of it.                                                          *)
(***************************************************************************)

\* first loop of next: consume up to and including the first name character
RECURSIVE SkipToName(_, _)
SkipToName(order_str, pos) ==
    IF pos >= Len(order_str) THEN pos
    ELSE IF IsNameChar(order_str[pos + 1]) THEN pos + 1
    ELSE SkipToName(order_str, pos + 1)

\* a slip on the second loop: the split falls after the delimiter
RECURSIVE ScanNameInclusive(_, _)
ScanNameInclusive(order_str, pos) ==
    IF pos >= Len(order_str)
    THEN [some |-> TRUE, name |-> order_str, rest |-> <<>>, pos |-> pos]
    ELSE IF ~IsNameChar(order_str[pos + 1])
    THEN [some |-> TRUE, name |-> TakeFirst(order_str, pos + 1),
          rest |-> DropFirst(order_str, pos + 1), pos |-> pos + 1]
    ELSE ScanNameInclusive(order_str, pos + 1)

\* a slip on the end of next: when the second loop runs out of text the call
\* returns None instead of the pair (order_str, "")
RECURSIVE ScanNameNoFinal(_, _)
ScanNameNoFinal(order_str, pos) ==
    IF pos >= Len(order_str)
    THEN [some |-> FALSE, name |-> <<>>, rest |-> <<>>, pos |-> pos]
    ELSE IF ~IsNameChar(order_str[pos + 1])
    THEN [some |-> TRUE, name |-> TakeFirst(order_str, pos),
          rest |-> DropFirst(order_str, pos), pos |-> pos + 1]
    ELSE ScanNameNoFinal(order_str, pos + 1)

\* second loop of next: consume up to and including the first character that
\* is no name character; i is the index char_indices gives that character
RECURSIVE ScanName(_, _)
ScanName(order_str, pos) ==
    IF pos >= Len(order_str)
    THEN [some |-> TRUE, name |-> order_str, rest |-> <<>>, pos |-> pos]
    ELSE IF ~IsNameChar(order_str[pos + 1])
    THEN [some |-> TRUE, name |-> TakeFirst(order_str, pos),
          rest |-> DropFirst(order_str, pos), pos |-> pos + 1]
    ELSE ScanName(order_str, pos + 1)

\* a slip on the end test of next: the call made when the text is used up
\* still gives the pair (order_str, ""), and only the call after it ends
ProvinceNextPastEnd(order_str, pos) ==
    IF pos > Len(order_str)
    THEN [some |-> FALSE, name |-> <<>>, rest |-> <<>>, pos |-> pos]
    ELSE IF pos = Len(order_str)
    THEN [some |-> TRUE, name |-> order_str, rest |-> <<>>, pos |-> pos + 1]
    ELSE ScanName(order_str, SkipToName(order_str, pos))

\* ParseProvince::next
ProvinceNext(order_str, pos) ==
    IF pos >= Len(order_str)
    THEN [some |-> FALSE, name |-> <<>>, rest |-> <<>>, pos |-> pos]
    ELSE ScanName(order_str, SkipToName(order_str, pos))

\* every pair parse_province(order_str) yields from position pos on, in order
RECURSIVE ProvincesFrom(_, _)
ProvincesFrom(order_str, pos) ==
    LET n == ProvinceNext(order_str, pos)
    IN  IF ~n.some THEN <<>>
        ELSE <<[name |-> n.name, rest |-> n.rest]>> \o ProvincesFrom(order_str, n.pos)

\* parse_province(order_str), run to its end
Provinces(order_str) == ProvincesFrom(order_str, 0)

(***************************************************************************)
(* The four order rules                                                    *)
(***************************************************************************)

OkHold(unit, province, rem) ==
    [ok |-> TRUE, unit |-> unit, province |-> province, rem |-> rem]

OkMove(unit, source, dest, rem) ==
    [ok |-> TRUE, unit |-> unit, source |-> source, dest |-> dest, rem |-> rem]

OkSupport(unit, prov, unit2, source, dest, rem) ==
    [ok |-> TRUE, unit |-> unit, province |-> prov, unit2 |-> unit2,
     source |-> source, dest |-> dest, rem |-> rem]

ErrOrder(order_str) == [ok |-> FALSE, rem |-> order_str]

\* a slip on parse_hold_order's loop: the failure carries the text left after
\* the unit instead of the line
RECURSIVE HoldLoopPartial(_, _, _, _)
HoldLoopPartial(order_str, unit, rem_order_str, pos) ==
    LET n == ProvinceNext(rem_order_str, pos)
    IN  IF ~n.some THEN ErrOrder(rem_order_str)
        ELSE LET w == require_whitespace(n.rest)
             IN  IF ~w.ok THEN ErrOrder(rem_order_str)
                 ELSE LET h == parse_hold(w.rem)
                      IN  IF h.ok /\ expect_eol(h.rem).ok
                          THEN OkHold(unit, n.name, h.rem)
                          ELSE HoldLoopPartial(order_str, unit, rem_order_str, n.pos)

\* the for loop of parse_hold_order, from iterator position pos
RECURSIVE HoldLoop(_, _, _, _)
HoldLoop(order_str, unit, rem_order_str, pos) ==
    LET n == ProvinceNext(rem_order_str, pos)
    IN  IF ~n.some THEN ErrOrder(order_str)
        ELSE LET w == require_whitespace(n.rest)
             IN  IF ~w.ok THEN ErrOrder(order_str)
                 ELSE LET h == parse_hold(w.rem)
                      IN  IF h.ok /\ expect_eol(h.rem).ok
                          THEN OkHold(unit, n.name, h.rem)
                          ELSE HoldLoop(order_str, unit, rem_order_str, n.pos)

\* a slip on parse_hold_order: a unit with no place after it is taken as a
\* hold of that unit
parse_hold_order_bare_unit(order_str) ==
    LET u == optional_unit(order_str)
    IN  IF u.val # "None" /\ skip_whitespace(u.rem) = <<>>
        THEN OkHold(u.val, <<>>, <<>>)
        ELSE HoldLoop(order_str, u.val, skip_whitespace(u.rem), 0)

parse_hold_order(order_str) ==
    LET u == optional_unit(order_str)
    IN  HoldLoop(order_str, u.val, skip_whitespace(u.rem), 0)

\* the prologue shared by parse_move_order, parse_support_order and
\* parse_convoy_order: a recognised unit must be followed by whitespace
UnitPrologue(order_str) ==
    LET u == parse_unit(order_str)
    IN  IF u.ok
        THEN LET w == require_whitespace(u.rem)
             IN  IF w.ok THEN [ok |-> TRUE, unit |-> u.val, rem |-> w.rem]
                 ELSE [ok |-> FALSE, unit |-> u.val, rem |-> order_str]
        ELSE [ok |-> TRUE, unit |-> "None", rem |-> skip_whitespace(order_str)]

\* a slip on the inner loop: the first destination candidate is taken
\* whatever follows it
DestLoopFirst(rem_order_str, pos) ==
    LET n == ProvinceNext(rem_order_str, pos)
    IN  IF ~n.some THEN [found |-> FALSE, dest |-> <<>>]
        ELSE [found |-> TRUE, dest |-> n.name]

\* the inner for loop of parse_move_order: found iff some destination
\* candidate has an empty remainder
RECURSIVE DestLoop(_, _)
DestLoop(rem_order_str, pos) ==
    LET n == ProvinceNext(rem_order_str, pos)
    IN  IF ~n.some THEN [found |-> FALSE, dest |-> <<>>]
        ELSE IF expect_eol(n.rest).ok THEN [found |-> TRUE, dest |-> n.name]
        ELSE DestLoop(rem_order_str, n.pos)

\* the outer for loop of parse_move_order, from iterator position pos
RECURSIVE MoveLoop(_, _, _, _)
MoveLoop(order_str, unit, rem_order_str, pos) ==
    LET n == ProvinceNext(rem_order_str, pos)
    IN  IF ~n.some THEN ErrOrder(order_str)
        ELSE LET t == parse_to(skip_whitespace(n.rest))
                 d == DestLoop(skip_whitespace(t.rem), 0)
             IN  IF t.ok /\ d.found
                 THEN OkMove(unit, n.name, d.dest, <<>>)
                 ELSE MoveLoop(order_str, unit, rem_order_str, n.pos)

parse_move_order(order_str) ==
    LET p == UnitPrologue(order_str)
    IN  IF ~p.ok THEN ErrOrder(order_str)
        ELSE MoveLoop(order_str, p.unit, p.rem, 0)

\* a slip on parse_support_order: the Hold rule is tried before the Move rule
SupportTailHoldFirst(unit, prov, tail) ==
    LET m == parse_move_order(tail)
        h == parse_hold_order(tail)
    IN  IF h.ok THEN OkSupport(unit, prov, h.unit, h.province, h.province, h.rem)
        ELSE IF m.ok THEN OkSupport(unit, prov, m.unit, m.source, m.dest, m.rem)
        ELSE ErrOrder(tail)

\* the body of parse_support_order's loop once the keyword matched: the Move
\* rule, else the Hold rule, on the text after the keyword
SupportTail(unit, prov, tail) ==
    LET m == parse_move_order(tail)
        h == parse_hold_order(tail)
    IN  IF m.ok THEN OkSupport(unit, prov, m.unit, m.source, m.dest, m.rem)
        ELSE IF h.ok THEN OkSupport(unit, prov, h.unit, h.province, h.province, h.rem)
        ELSE ErrOrder(tail)

\* the for loop of parse_support_order, from iterator position pos
RECURSIVE SupportLoop(_, _, _, _)
SupportLoop(order_str, unit, rem_order_str, pos) ==
    LET n == ProvinceNext(rem_order_str, pos)
    IN  IF ~n.some THEN ErrOrder(order_str)
        ELSE LET k == parse_support(skip_whitespace(n.rest))
                 r == SupportTail(unit, n.name, skip_whitespace(k.rem))
             IN  IF k.ok /\ r.ok THEN r
                 ELSE SupportLoop(order_str, unit, rem_order_str, n.pos)

parse_support_order(order_str) ==
    LET p == UnitPrologue(order_str)
    IN  IF ~p.ok THEN ErrOrder(order_str)
        ELSE SupportLoop(order_str, p.unit, p.rem, 0)

\* a slip on parse_convoy_order: the Hold rule is tried when Move fails, as
\* in parse_support_order
ConvoyTailOrHold(unit, prov, tail) ==
    LET m == parse_move_order(tail)
        h == parse_hold_order(tail)
    IN  IF m.ok THEN OkSupport(unit, prov, m.unit, m.source, m.dest, m.rem)
        ELSE IF h.ok THEN OkSupport(unit, prov, h.unit, h.province, h.province, h.rem)
        ELSE ErrOrder(tail)

\* the body of parse_convoy_order's loop once the keyword matched: the Move
\* rule only
ConvoyTail(unit, prov, tail) ==
    LET m == parse_move_order(tail)
    IN  IF m.ok THEN OkSupport(unit, prov, m.unit, m.source, m.dest, m.rem)
        ELSE ErrOrder(tail)

\* the for loop of parse_convoy_order, from iterator position pos
RECURSIVE ConvoyLoop(_, _, _, _)
ConvoyLoop(order_str, unit, rem_order_str, pos) ==
    LET n == ProvinceNext(rem_order_str, pos)
    IN  IF ~n.some THEN ErrOrder(order_str)
        ELSE LET k == parse_convoy(skip_whitespace(n.rest))
                 r == ConvoyTail(unit, n.name, skip_whitespace(k.rem))
             IN  IF k.ok /\ r.ok THEN r
                 ELSE ConvoyLoop(order_str, unit, rem_order_str, n.pos)

parse_convoy_order(order_str) ==
    LET p == UnitPrologue(order_str)
    IN  IF ~p.ok THEN ErrOrder(order_str)
        ELSE ConvoyLoop(order_str, p.unit, p.rem, 0)

(***************************************************************************)
(* Parser combinators (combinators.rs)                                     *)
(*                                                                         *)
(* A parser is a record naming its kind and sub-parsers.  parse(s) builds  *)
(* the parser's Result iterator, a record holding the iterator's fields;   *)
(* next takes an iterator and gives the item it returns and the iterator   *)
(* it leaves behind.                                                       *)
(***************************************************************************)

\* Option<T>
None == [some |-> FALSE]
Some(x) == [some |-> TRUE, v |-> x]

Never == [kind |-> "never"]
Empty == [kind |-> "empty"]
Tag(value) == [kind |-> "tag", tag |-> value]
Optional(p) == [kind |-> "optional", inner |-> p]
Either(left, right) == [kind |-> "either", left |-> left, right |-> right]
Chain(first, second) == [kind |-> "chain", first |-> first, second |-> second]

\* Parser::parse of Never, Empty, Tag, Optional, Either and Chain
RECURSIVE Parse(_, _)
Parse(p, s) ==
    CASE p.kind = "never" -> [kind |-> "never"]
      [] p.kind = "empty" -> [kind |-> "empty", s |-> Some(s)]
      [] p.kind = "tag" -> [kind |-> "tag", s |-> s, tag |-> Some(p.tag)]
      [] p.kind = "optional" ->
            [kind |-> "optional", s |-> s, inner |-> Some(Parse(p.inner, s))]
      [] p.kind = "either" ->
            [kind |-> "either", left |-> Some(Parse(p.left, s)),
             right |-> Some(Parse(p.right, s))]
      [] p.kind = "chain" ->
            [kind |-> "chain", first_it |-> Parse(p.first, s),
             second |-> p.second, inner |-> None]

\* what a call of next gives: the item returned and the iterator afterwards
Pulled(item, it) == [item |-> item, it |-> it]

\* a parse candidate (value, remaining input)
Candidate(val, rem) == [val |-> val, rem |-> rem]

RECURSIVE IterNext(_)

NeverParseNext(it) == Pulled(None, it)

EmptyParseNext(it) ==
    Pulled(IF it.s.some THEN Some(Candidate("unit", it.s.v)) ELSE None,
           [it EXCEPT !.s = None])

TagParseNext(it) ==
    Pulled(IF it.tag.some /\ starts_with(it.s, it.tag.v)
           THEN Some(Candidate(it.tag.v, DropFirst(it.s, Len(it.tag.v))))
           ELSE None,
           [it EXCEPT !.tag = None])

\* a slip on OptionalParse::next: when inner is exhausted the iterator ends
\* without the absent result
OptionalParseNextNoAbsent(it) ==
    IF it.inner.some
    THEN LET n == IterNext(it.inner.v)
         IN  IF n.item.some
             THEN Pulled(Some(Candidate(Some(n.item.v.val), n.item.v.rem)),
                         [it EXCEPT !.inner = Some(n.it)])
             ELSE Pulled(None, [it EXCEPT !.inner = None])
    ELSE Pulled(None, it)

OptionalParseNext(it) ==
    IF it.inner.some
    THEN LET n == IterNext(it.inner.v)
         IN  IF n.item.some
             THEN Pulled(Some(Candidate(Some(n.item.v.val), n.item.v.rem)),
                         [it EXCEPT !.inner = Some(n.it)])
             ELSE Pulled(Some(Candidate(None, it.s)),
                         [it EXCEPT !.inner = None])
    ELSE Pulled(None, it)

\* a slip on EitherParse::next: when left is exhausted the call returns None
\* instead of going on to right
EitherParseNextGap(it) ==
    IF it.left.some
    THEN LET n == IterNext(it.left.v)
         IN  IF n.item.some
             THEN Pulled(Some(Candidate([side |-> "Left", v |-> n.item.v.val],
                                        n.item.v.rem)),
                         [it EXCEPT !.left = Some(n.it)])
             ELSE Pulled(None, [it EXCEPT !.left = None])
    ELSE IF it.right.some
    THEN LET n == IterNext(it.right.v)
         IN  IF n.item.some
             THEN Pulled(Some(Candidate([side |-> "Right", v |-> n.item.v.val],
                                        n.item.v.rem)),
                         [it EXCEPT !.right = Some(n.it)])
             ELSE Pulled(None, [it EXCEPT !.right = None])
    ELSE Pulled(None, it)

RECURSIVE EitherParseNext(_)
EitherParseNext(it) ==
    IF it.left.some
    THEN LET n == IterNext(it.left.v)
         IN  IF n.item.some
             THEN Pulled(Some(Candidate([side |-> "Left", v |-> n.item.v.val],
                                        n.item.v.rem)),
                         [it EXCEPT !.left = Some(n.it)])
             ELSE EitherParseNext([it EXCEPT !.left = None])
    ELSE IF it.right.some
    THEN LET n == IterNext(it.right.v)
         IN  IF n.item.some
             THEN Pulled(Some(Candidate([side |-> "Right", v |-> n.item.v.val],
                                        n.item.v.rem)),
                         [it EXCEPT !.right = Some(n.it)])
             ELSE Pulled(None, [it EXCEPT !.right = None])
    ELSE Pulled(None, it)

\* a slip on ChainParse::next: the pair of a first result is dropped after its
\* first second result, so the other second results on that remainder are lost
RECURSIVE ChainParseNextFirstOnly(_)
ChainParseNextFirstOnly(it) ==
    IF it.inner.some
    THEN LET n == IterNext(it.inner.v.second_it)
         IN  IF n.item.some
             THEN Pulled(Some(Candidate(<<it.inner.v.first_result, n.item.v.val>>,
                                        n.item.v.rem)),
                         [it EXCEPT !.inner = None])
             ELSE ChainParseNextFirstOnly([it EXCEPT !.inner = None])
    ELSE LET n == IterNext(it.first_it)
         IN  IF n.item.some
             THEN ChainParseNextFirstOnly(
                      [it EXCEPT !.first_it = n.it,
                                 !.inner =
                                     Some([first_result |-> n.item.v.val,
                                           second_it |-> Parse(it.second,
                                                               n.item.v.rem)])])
             ELSE Pulled(None, [it EXCEPT !.first_it = n.it])

RECURSIVE ChainParseNext(_)
ChainParseNext(it) ==
    IF it.inner.some
    THEN LET n == IterNext(it.inner.v.second_it)
         IN  IF n.item.some
             THEN Pulled(Some(Candidate(<<it.inner.v.first_result, n.item.v.val>>,
                                        n.item.v.rem)),
                         [it EXCEPT !.inner =
                             Some([first_result |-> it.inner.v.first_result,
                                   second_it |-> n.it])])
             ELSE ChainParseNext([it EXCEPT !.inner = None])
    ELSE LET n == IterNext(it.first_it)
         IN  IF n.item.some
             THEN ChainParseNext(
                      [it EXCEPT !.first_it = n.it,
                                 !.inner =
                                     Some([first_result |-> n.item.v.val,
                                           second_it |-> Parse(it.second,
                                                               n.item.v.rem)])])
             ELSE Pulled(None, [it EXCEPT !.first_it = n.it])

\* Iterator::next of the Result iterator `it`
IterNext(it) ==
    CASE it.kind = "never" -> NeverParseNext(it)
      [] it.kind = "empty" -> EmptyParseNext(it)
      [] it.kind = "tag" -> TagParseNext(it)
      [] it.kind = "optional" -> OptionalParseNext(it)
      [] it.kind = "either" -> EitherParseNext(it)
      [] it.kind = "chain" -> ChainParseNext(it)

\* the candidates `it` gives until its first None, in order
RECURSIVE Drain(_)
Drain(it) ==
    LET n == IterNext(it)
    IN  IF n.item.some THEN <<n.item.v>> \o Drain(n.it) ELSE <<>>

\* every result of parser p on s, in order
Results(p, s) == Drain(Parse(p, s))

(***************************************************************************)
(* Input lines                                                             *)
(***************************************************************************)

\* longest line, in lexemes, of the enumerated lines
MaxTokens == 6

\* the lexemes the enumerated lines are made of: a unit token that is also a
\* letter, a plain letter, whitespace, the move separator, the hold keyword
Tokens == {<<"a">>, <<"x">>, <<" ">>, <<"-">>, <<"h">>}

\* the lexemes of the lines that move with the word separator
ToTokens == {<<"x">>, <<" ">>, <<"t", "o">>, <<"h">>}

\* the line a sequence of lexemes spells
RECURSIVE Flatten(_)
Flatten(ts) == IF ts = <<>> THEN <<>> ELSE Head(ts) \o Flatten(Tail(ts))

\* line is head followed by at most MaxTokens lexemes of tokens
IsLine(line, head, tokens) ==
    \E n \in 0..MaxTokens :
        \E ts \in [1..n -> tokens] : line = head \o Flatten(ts)

\* place and keyword in front of a supported or convoyed order
Heads ==
    {<<"x", " ", "s">>, <<"x", " ", "c">>, <<"a", " ", "x", " ", "s">>}

\* the lines of the tests of mod.rs
TestLines ==
    {<<"a", "r", "m", "y", " ", "r", "u", "h", "r">>,
     <<"E", "a", "s", "t", "e", "r", "n", " ", "M", "e", "d", "i", "t", "e", "r", "r", "a", "n", "e", "a", "n", " ", "S", "e", "a", " ">>,
     <<"a", " ", "b", "r", "e", "s", "t", " ", "h">>,
     <<"f", "l", "e", "e", "t", " ", "e", "a", "s", "t", "e", "r", "n", " ", "m", "e", "d", " ", "h", "o", "l", "d", "s">>,
     <<"w", "e", "s", "t", "e", "r", "n", " ", "m", "e", "d", " ", "s", "e", "a", " ", "h", "o", "l", "d", "s">>,
     <<"a", " ", "b", "r", "e", "s", "t", " ", "-", " ", "p", "a", "r", "i", "s">>,
     <<"a", " ", "b", "r", "e", "s", "t", "-", "p", "a", "r", "i", "s">>,
     <<"p", "a", "r", "i", "s", "-", "b", "u", "r", "g", "u", "n", "d", "y">>,
     <<"f", " ", "w", "e", "s", "t", "e", "r", "n", " ", "m", "e", "d", " ", "t", "o", " ", "s", "p", "a", "i", "n", " ", "(", "s", "c", ")">>,
     <<"a", " ", "b", "r", "e", "s", "t", " ", "s", " ", "a", " ", "p", "a", "r", "i", "s", " ", "h">>,
     <<"a", " ", "b", "r", "e", "s", "t", " ", "s", " ", "p", "a", "r", "i", "s", "-", "b", "u", "r", "g", "u", "n", "d", "y">>,
     <<"f", " ", "b", "r", "e", "s", "t", " ", "c", "o", "n", "v", "o", "y", "s", " ", "p", "a", "r", "i", "s", "-", "b", "u", "r", "g", "u", "n", "d", "y">>}

\* a unit token alone, or followed only by whitespace
LoneUnitLines ==
    {u \o w : u \in {<<"a">>, <<"f">>, <<"a", "r", "m", "y">>,
                      <<"f", "l", "e", "e", "t">>},
              w \in {<<>>, <<" ">>, <<" ", " ">>}}

\* the lines given to the rules: every line of at most MaxTokens lexemes,
\* such a line behind a support or convoy head, the lines of the tests and
\* the lone units
IsInput(line) ==
    \/ IsLine(line, <<>>, Tokens)
    \/ IsLine(line, <<>>, ToTokens)
    \/ \E h \in Heads : IsLine(line, h, Tokens)
    \/ line \in TestLines
    \/ line \in LoneUnitLines

\* longest text, in characters, given to a combinator
MaxCombLen == 3

RECURSIVE StringsUpTo(_, _)
StringsUpTo(chars, n) ==
    IF n = 0 THEN {<<>>}
    ELSE LET prev == StringsUpTo(chars, n - 1)
         IN  prev \cup {Append(t, c) : t \in prev, c \in chars}

\* the texts given to the combinators
CombInputs == StringsUpTo({"a", "b"}, MaxCombLen)

\* parsers with zero, one and several results
SubParsers ==
    {Never, Empty, Tag(<<"a">>), Tag(<<"a", "b">>),
     Optional(Tag(<<"a">>)),
     Either(Tag(<<"a">>), Tag(<<"a", "b">>)),
     Chain(Optional(Tag(<<"a">>)), Optional(Tag(<<"a">>)))}

\* the parsers whose Result iterator is pulled
Parsers ==
    {Optional(p) : p \in SubParsers}
        \cup {Chain(p, q) : p \in SubParsers, q \in SubParsers}
        \cup {Either(p, q) : p \in SubParsers, q \in SubParsers}

\* calls of next after the iterator first returned None
MaxExtraPulls == 2

(***************************************************************************)
(* State machine                                                           *)
(***************************************************************************)

orderVars == <<result, it_pos, it_ended, yielded>>
combVars == <<parser, c_it, pulls>>

\* a line is given to the order rules
InitOrder ==
    /\ IsInput(input)
    /\ op = "none"
    /\ parser = Never
    /\ c_it = Parse(Never, <<>>)

\* a parser and a text are given to the combinators
InitComb ==
    /\ input \in CombInputs
    /\ op = "comb"
    /\ parser \in Parsers
    /\ c_it = None

InitRest ==
    /\ result = [ok |-> FALSE, rem |-> <<>>]
    /\ it_pos = 0
    /\ it_ended = FALSE
    /\ yielded = <<>>
    /\ pulls = <<>>

Init == (InitOrder \/ InitComb) /\ InitRest

CombInit == InitComb /\ InitRest

ParseHoldOrder ==
    /\ op = "none"
    /\ op' = "hold"
    /\ result' = parse_hold_order(input)
    /\ UNCHANGED <<input, it_pos, it_ended, yielded, combVars>>

ParseMoveOrder ==
    /\ op = "none"
    /\ op' = "move"
    /\ result' = parse_move_order(input)
    /\ UNCHANGED <<input, it_pos, it_ended, yielded, combVars>>

ParseSupportOrder ==
    /\ op = "none"
    /\ op' = "support"
    /\ result' = parse_support_order(input)
    /\ UNCHANGED <<input, it_pos, it_ended, yielded, combVars>>

ParseConvoyOrder ==
    /\ op = "none"
    /\ op' = "convoy"
    /\ result' = parse_convoy_order(input)
    /\ UNCHANGED <<input, it_pos, it_ended, yielded, combVars>>

\* one call of ParseProvince::next on parse_province(input)
ParseProvinceNext ==
    /\ op \in {"none", "province"}
    /\ ~it_ended
    /\ op' = "province"
    /\ LET n == ProvinceNext(input, it_pos)
       IN  /\ it_pos' = n.pos
           /\ it_ended' = ~n.some
           /\ yielded' = IF n.some
                         THEN Append(yielded, [name |-> n.name, rest |-> n.rest])
                         ELSE yielded
    /\ UNCHANGED <<input, result, combVars>>

\* parser.parse(input)
ParserParse ==
    /\ op = "comb"
    /\ op' = "pulling"
    /\ c_it' = Parse(parser, input)
    /\ UNCHANGED <<input, parser, pulls, orderVars>>

\* the number of trailing None in pulls
NonePulls == Cardinality({i \in 1..Len(pulls) : ~pulls[i].some})

\* one call of next on the Result iterator
ParserNext ==
    /\ op = "pulling"
    /\ NonePulls < MaxExtraPulls
    /\ LET n == IterNext(c_it)
       IN  /\ pulls' = Append(pulls, n.item)
           /\ c_it' = n.it
    /\ UNCHANGED <<input, op, parser, orderVars>>

Next ==
    \/ ParseHoldOrder
    \/ ParseMoveOrder
    \/ ParseSupportOrder
    \/ ParseConvoyOrder
    \/ ParseProvinceNext
    \/ ParserParse
    \/ ParserNext

CombNext ==
    \/ ParserParse
    \/ ParserNext

Spec == Init /\ [][Next]_vars

\* the combinators alone
CombSpec == CombInit /\ [][CombNext]_vars

(***************************************************************************)
(* Properties                                                              *)
(***************************************************************************)

Rules == {"hold", "move", "support", "convoy"}

AllWhitespace(s) == \A i \in 1..Len(s) : s[i] \in Whitespace

\* s ends with t
EndsWith(s, t) ==
    Len(s) >= Len(t) /\ SubSeq(s, Len(s) - Len(t) + 1, Len(s)) = t

\* the text s without its leading whitespace, stated without trim_start
Trimmed(s) ==
    LET k == CHOOSE k \in 0..Len(s) :
                 /\ AllWhitespace(TakeFirst(s, k))
                 /\ (k = Len(s) \/ s[k + 1] \notin Whitespace)
    IN  DropFirst(s, k)

\* C1: every rule returns a success whose remaining input is empty, or a
\* failure whose payload is the original input line.
C1_EmptyOrUntouched ==
    op \in Rules =>
        \/ result.ok /\ result.rem = <<>>
        \/ ~result.ok /\ result.rem = input

\* C1 witness: a rule failed after its unit token and a place candidate had
\* been consumed, and gives back the whole line.
C1_Witness ==
    /\ op = "move"
    /\ ~result.ok
    /\ result.rem = input
    /\ UnitPrologue(input).ok
    /\ UnitPrologue(input).unit = "Army"
    /\ Len(Provinces(UnitPrologue(input).rem)) >= 2

\* C2: in every rule, a recognised unit token whose next character is not
\* whitespace makes the rule fail.
C2_UnitNeedsWhitespace ==
    (/\ op \in Rules
     /\ parse_unit(input).ok
     /\ parse_unit(input).rem # <<>>
     /\ parse_unit(input).rem[1] \notin Whitespace)
        => ~result.ok

\* a syntactically valid place name: runs of name characters, single spaces
\* between them, nothing else
ValidName(n) ==
    /\ n # <<>>
    /\ \A i \in 1..Len(n) : IsNameChar(n[i]) \/ n[i] = " "
    /\ IsNameChar(n[1])
    /\ IsNameChar(n[Len(n)])
    /\ \A i \in 1..(Len(n) - 1) : ~(n[i] = " " /\ n[i + 1] = " ")

\* C3: every place name a successful rule returns is syntactically valid.
C3_NamesValid ==
    /\ (op = "hold" /\ result.ok) => ValidName(result.province)
    /\ (op = "move" /\ result.ok) =>
            ValidName(result.source) /\ ValidName(result.dest)
    /\ (op \in {"support", "convoy"} /\ result.ok) =>
            /\ ValidName(result.province)
            /\ ValidName(result.source)
            /\ ValidName(result.dest)

\* words of name characters separated by single spaces
SingleSpacedWords(s) == ValidName(s)

\* the positions at which a word of s ends
WordEnds(s) ==
    {k \in 1..Len(s) :
        IsNameChar(s[k]) /\ (k = Len(s) \/ ~IsNameChar(s[k + 1]))}

\* C4: parse_province yields prefixes of the input of strictly increasing
\* length, each pair splits the input, and on single-spaced words the i-th
\* name is the first i words with the rest starting at the delimiter.
C4_ShortestFirst ==
    op = "province" =>
        /\ \A i \in 1..Len(yielded) :
               yielded[i].name \o yielded[i].rest = input
        /\ \A i, j \in 1..Len(yielded) :
               i < j => Len(yielded[i].name) < Len(yielded[j].name)
        /\ SingleSpacedWords(input) =>
               /\ \A i \in 1..Len(yielded) :
                      /\ Len(yielded[i].name) \in WordEnds(input)
                      /\ Cardinality({e \in WordEnds(input) :
                                         e <= Len(yielded[i].name)}) = i
                      /\ yielded[i].rest # <<>> => yielded[i].rest[1] = " "
               /\ it_ended => Len(yielded) = Cardinality(WordEnds(input))

\* C4 witness: three words were enumerated to the end.
C4_Witness ==
    /\ op = "province"
    /\ it_ended
    /\ SingleSpacedWords(input)
    /\ Len(yielded) = 3
    /\ yielded[3].rest = <<>>

\* the text the Hold rule enumerates place names on
HoldText(line) == Trimmed(optional_unit(line).rem)

\* at least one whitespace character, a hold keyword, end of input
HoldMatch(rest) ==
    /\ rest # <<>>
    /\ rest[1] \in Whitespace
    /\ Trimmed(rest) \in {<<"h", "o", "l", "d", "s">>, <<"h", "o", "l", "d">>, <<"h">>}

\* C5: parse_hold_order succeeds iff some candidate is followed by
\* whitespace, a hold keyword and end of input, and returns that candidate.
C5_HoldIffSomeCandidate ==
    op = "hold" =>
        LET cands == Provinces(HoldText(input))
            good == {i \in 1..Len(cands) : HoldMatch(cands[i].rest)}
        IN  /\ result.ok <=> good # {}
            /\ result.ok =>
                   /\ \E i \in good : result.province = cands[i].name
                   /\ result.unit = optional_unit(input).val

\* the destination text of a source candidate's rest: optional whitespace, a
\* separator, optional whitespace, then the destination to the end of input
MoveDests(rest) ==
    {Trimmed(DropFirst(Trimmed(rest), n)) : n \in
        {n \in 1..2 : /\ n <= Len(Trimmed(rest))
                      /\ TakeFirst(Trimmed(rest), n) \in {<<"-">>, <<"t", "o">>}}}

\* some destination candidate of d has an empty remainder
ReachesEnd(d) ==
    \E j \in 1..Len(Provinces(d)) : Provinces(d)[j].rest = <<>>

SupportKeyword(c) == parse_support(skip_whitespace(c.rest))

\* the text after the support keyword of candidate c
SupportTailText(c) == skip_whitespace(SupportKeyword(c).rem)

\* C7: parse_support_order takes the first candidate followed by a support
\* keyword whose tail parses, the tail by the Move rule first and by the Hold
\* rule only if Move fails; a supported hold has source = destination = the
\* held place.
C7_SupportMoveThenHold ==
    op = "support" =>
        LET p == UnitPrologue(input)
            cands == IF p.ok THEN Provinces(p.rem) ELSE <<>>
            good == {i \in 1..Len(cands) :
                        /\ SupportKeyword(cands[i]).ok
                        /\ \/ parse_move_order(SupportTailText(cands[i])).ok
                           \/ parse_hold_order(SupportTailText(cands[i])).ok}
        IN  /\ result.ok <=> good # {}
            /\ result.ok =>
                   LET i == CHOOSE i \in good : \A j \in good : i <= j
                       m == parse_move_order(SupportTailText(cands[i]))
                       h == parse_hold_order(SupportTailText(cands[i]))
                   IN  /\ result.unit = p.unit
                       /\ result.province = cands[i].name
                       /\ m.ok => /\ result.unit2 = m.unit
                                  /\ result.source = m.source
                                  /\ result.dest = m.dest
                       /\ ~m.ok => /\ result.unit2 = h.unit
                                   /\ result.source = h.province
                                   /\ result.dest = h.province

\* C7 witness: the tail parses both as a move and as a hold, and the support
\* carries the move.
C7_Witness ==
    /\ op = "support"
    /\ result.ok
    /\ result.source # result.dest
    /\ \E i \in 1..Len(Provinces(UnitPrologue(input).rem)) :
           LET c == Provinces(UnitPrologue(input).rem)[i]
           IN  /\ SupportKeyword(c).ok
               /\ parse_move_order(SupportTailText(c)).ok
               /\ parse_hold_order(SupportTailText(c)).ok

\* a place candidate c of the Convoy rule: the keyword follows it
ConvoyKeyword(c) == parse_convoy(skip_whitespace(c.rest))

\* the text after the convoy keyword of candidate c
ConvoyTailText(c) == skip_whitespace(ConvoyKeyword(c).rem)

UnitTokens ==
    {<<"a", "r", "m", "y">>, <<"a">>, <<"f", "l", "e", "e", "t">>, <<"f">>}

\* the empty line, or a unit token followed by nothing but whitespace
LoneUnit(s) ==
    \/ s = <<>>
    \/ \E u \in UnitTokens :
           /\ Len(s) >= Len(u)
           /\ TakeFirst(s, Len(u)) = u
           /\ AllWhitespace(DropFirst(s, Len(u)))

\* C9: the empty input, and a unit token with no place name after it, fail
\* every rule.
C9_LoneUnitFails ==
    (op \in Rules /\ LoneUnit(input)) => ~result.ok

\* C9 witness: the Hold rule was applied to "fleet " and failed.
C9_Witness ==
    /\ op = "hold"
    /\ input = <<"f", "l", "e", "e", "t", " ">>
    /\ ~result.ok

\* C10: optional(P) on S gives every result of P on S in P's order, wrapped
\* present, then one absent result whose remainder is S, then nothing.
C10_OptionalPresentThenAbsent ==
    (op = "pulling" /\ parser.kind = "optional") =>
        LET R == Results(parser.inner, input)
        IN  \A i \in 1..Len(pulls) :
                /\ i <= Len(R) =>
                       pulls[i] = Some(Candidate(Some(R[i].val), R[i].rem))
                /\ i = Len(R) + 1 => pulls[i] = Some(Candidate(None, input))
                /\ i > Len(R) + 1 => pulls[i] = None

\* C10 witness: two present results, the absent one, and two pulls that gave
\* nothing.
C10_Witness ==
    /\ op = "pulling"
    /\ parser.kind = "optional"
    /\ Len(Results(parser.inner, input)) = 2
    /\ Len(pulls) = 5
    /\ pulls[3] = Some(Candidate(None, input))
    /\ pulls[5] = None

\* the pairs chain gives for the results ps of its first parser: for each of
\* them in order, every result of q on its remainder, in order
RECURSIVE ChainPairs(_, _)
ChainPairs(ps, q) ==
    IF ps = <<>> THEN <<>>
    ELSE LET R == Results(q, Head(ps).rem)
         IN  [j \in 1..Len(R) |->
                 Candidate(<<Head(ps).val, R[j].val>>, R[j].rem)]
                 \o ChainPairs(Tail(ps), q)

\* the sum over the results ps of the number of results of q on the remainder
RECURSIVE ChainCount(_, _)
ChainCount(ps, q) ==
    IF ps = <<>> THEN 0
    ELSE Len(Results(q, Head(ps).rem)) + ChainCount(Tail(ps), q)

\* C11: chain(P,Q) on S gives, for each result (p, r) of P on S in P's order,
\* every result (q, r') of Q on r in Q's order as ((p, q), r'), and nothing
\* else; the number of results is the sum of the numbers of Q's results.
C11_ChainPairsInOrder ==
    (op = "pulling" /\ parser.kind = "chain") =>
        LET P == Results(parser.first, input)
            E == ChainPairs(P, parser.second)
        IN  /\ Len(E) = ChainCount(P, parser.second)
            /\ \A i \in 1..Len(pulls) :
                   pulls[i] = IF i <= Len(E) THEN Some(E[i]) ELSE None

\* C11 witness: on "ab" the first parser has two results; the second parser
\* has no result on the remainder "b" of the first of them and two on the
\* remainder "ab" of the second, which were pulled, and then nothing.
C11_Witness ==
    /\ op = "pulling"
    /\ parser = Chain(Optional(Tag(<<"a">>)),
                      Either(Tag(<<"a">>), Tag(<<"a", "b">>)))
    /\ input = <<"a", "b">>
    /\ Len(Results(parser.first, input)) = 2
    /\ Results(parser.second, <<"b">>) = <<>>
    /\ Len(pulls) = 3
    /\ pulls[1] = Some(Candidate(<<None, [side |-> "Left", v |-> <<"a">>]>>,
                                 <<"b">>))
    /\ pulls[2] = Some(Candidate(<<None,
                                   [side |-> "Right", v |-> <<"a", "b">>]>>,
                                 <<>>))
    /\ pulls[3] = None

\* the results rs tagged with side
Tagged(side, rs) ==
    [j \in 1..Len(rs) |->
        Candidate([side |-> side, v |-> rs[j].val], rs[j].rem)]

\* C12: either(P,Q) on S gives every result of P on S tagged Left, in P's
\* order, then every result of Q on the same S tagged Right, in Q's order,
\* and every further pull gives nothing.
C12_EitherLeftThenRight ==
    (op = "pulling" /\ parser.kind = "either") =>
        LET E == Tagged("Left", Results(parser.left, input))
                     \o Tagged("Right", Results(parser.right, input))
        IN  \A i \in 1..Len(pulls) :
                pulls[i] = IF i <= Len(E) THEN Some(E[i]) ELSE None

\* C12 witness: on "ab" the left parser consumed "a" and the right parser
\* matched "ab" from the start of the text; both results were pulled, and two
\* more pulls gave nothing.
C12_Witness ==
    /\ op = "pulling"
    /\ parser = Either(Tag(<<"a">>), Tag(<<"a", "b">>))
    /\ input = <<"a", "b">>
    /\ pulls = <<Some(Candidate([side |-> "Left", v |-> <<"a">>], <<"b">>)),
                 Some(Candidate([side |-> "Right", v |-> <<"a", "b">>], <<>>)),
                 None, None>>

HasNameChar(s) == \E i \in 1..Len(s) : IsNameChar(s[i])

\* s ends with a name character followed by exactly one other character that
\* is no name character
EndsOneDelimiter(s) ==
    /\ Len(s) >= 2
    /\ ~IsNameChar(s[Len(s)])
    /\ IsNameChar(s[Len(s) - 1])

\* parse_province(input) was pulled until it returned None
ProvinceEnded == op = "province" /\ it_ended

\* C13 as stated: for every input with at least one name character, the last
\* pair parse_province yields before ending is (entire input, "").
C13_LastPairWholeInput ==
    (ProvinceEnded /\ HasNameChar(input)) =>
        /\ yielded # <<>>
        /\ yielded[Len(yielded)] = [name |-> input, rest |-> <<>>]

\* C13 amended: for every input with at least one name character, the last
\* pair parse_province yields before ending is (entire input, ""), unless the
\* input ends with exactly one character that is no name character right
\* after a name character; then the last pair is (the input without that
\* character, that character).
C13_LastPairWholeUnlessOneDelimiter ==
    (ProvinceEnded /\ HasNameChar(input)) =>
        /\ yielded # <<>>
        /\ yielded[Len(yielded)] =
               IF EndsOneDelimiter(input)
               THEN [name |-> TakeFirst(input, Len(input) - 1),
                     rest |-> <<input[Len(input)]>>]
               ELSE [name |-> input, rest |-> <<>>]

\* C13 witness: parse_province_test's text "Eastern Mediterranean Sea " was
\* pulled to its end; the third and last pair is
\* ("Eastern Mediterranean Sea", " ").
C13_Witness ==
    /\ ProvinceEnded
    /\ input = <<"E", "a", "s", "t", "e", "r", "n", " ", "M", "e", "d", "i",
                 "t", "e", "r", "r", "a", "n", "e", "a", "n", " ", "S", "e",
                 "a", " ">>
    /\ Len(yielded) = 3
    /\ yielded[3].rest = <<" ">>
    /\ yielded[3].name = TakeFirst(input, 25)

\* C14: when no name character lies between the enumerator's position and
\* the end of the input, a call of next yields no further pair; in
\* particular an input without any name character yields no pair at all.
C14_NoNameNoPair ==
    [][~HasNameChar(DropFirst(input, it_pos)) => yielded' = yielded]_vars

\* the keyword match of place candidate c under the rule that was applied
OrderKeyword(c) ==
    IF op = "support" THEN SupportKeyword(c) ELSE ConvoyKeyword(c)

\* C15: in parse_support_order and parse_convoy_order at least one whitespace
\* character separates the keyword from the supported order: the candidate
\* whose keyword match a successful result comes from has whitespace right
\* after its keyword.
C15_KeywordThenWhitespace ==
    (op \in {"support", "convoy"} /\ result.ok) =>
        LET cands == Provinces(UnitPrologue(input).rem)
        IN  \A i \in 1..Len(cands) :
                cands[i].name = result.province =>
                    /\ OrderKeyword(cands[i]).ok
                    /\ OrderKeyword(cands[i]).rem # <<>>
                    /\ OrderKeyword(cands[i]).rem[1] \in Whitespace

\* the text s without its first k characters, for every k: the rules hand
\* parse_province remainders of the line only
Suffixes(s) == {DropFirst(s, k) : k \in 0..Len(s)}

\* C16: every rule terminates on every finite input.  A call of next made
\* with text left yields a pair and moves strictly forward, never past the
\* end, and a call made at the end of the text ends the enumeration; so
\* parse_province yields at most as many pairs as its text has characters,
\* on the line and on every remainder the nested loops enumerate, and a rule
\* that ran holds a success or a failure result.
C16_RulesTerminate ==
    /\ Len(yielded) <= it_pos
    /\ it_pos <= Len(input)
    /\ LET n == ProvinceNext(input, it_pos)
       IN  IF it_pos = Len(input) THEN ~n.some
           ELSE n.some /\ it_pos < n.pos /\ n.pos <= Len(input)
    /\ op \in Rules =>
           /\ \A t \in Suffixes(input) : Len(Provinces(t)) <= Len(t)
           /\ result.ok \in BOOLEAN
           /\ ~result.ok => result = ErrOrder(input)

\* C16 witness: the Support rule ended in failure on "x s x x -" after going
\* through the five place candidates of the line; behind the keyword of the
\* first candidate the Move rule and the Hold rule each went through the
\* candidates of "x x -" and failed.
C16_Witness ==
    /\ op = "support"
    /\ input = <<"x", " ", "s", " ", "x", " ", "x", " ", "-">>
    /\ Len(Provinces(input)) = 5
    /\ SupportKeyword(Provinces(input)[1]).ok
    /\ SupportTailText(Provinces(input)[1]) = <<"x", " ", "x", " ", "-">>
    /\ Len(Provinces(<<"x", " ", "x", " ", "-">>)) = 3
    /\ ~parse_move_order(<<"x", " ", "x", " ", "-">>).ok
    /\ ~parse_hold_order(<<"x", " ", "x", " ", "-">>).ok
    /\ result = ErrOrder(input)

=============================================================================
